---- MODULE Spec2Model ----
(***************************************************************************)
(* Model of taskfile/ast/include.go: the Include record (two-form YAML     *)
(* decoder, DeepCopy) and the Includes registry (an insertion-ordered map  *)
(* from namespace to *Include with a YAML mapping decoder).                *)
(*                                                                         *)
(* Representation.                                                         *)
(*   - A *Include held by the registry is <<>> (nil) or <<rec>> (a pointer *)
(*     to record rec); no registry operation writes through the pointer.   *)
(*   - An *Includes is [isNil, om]; om is [isNil, els], els the sequence   *)
(*     of [Key, Value] elements of the ordered map in list order.          *)
(*   - For DeepCopy, Include and Vars objects live in heaps (sequences     *)
(*     indexed by address); a pointer is an address, 0 is nil.             *)
(*   - A yaml.Node is [Kind, Tag, Value, Present, Fields, BadFields,       *)
(*     Content].                                                           *)
(***************************************************************************)
EXTENDS Integers, Sequences, FiniteSets, TLC

VARIABLES
    includes,    \* the caller's *Includes
    firstOrder,  \* history: namespaces in the order of their first Set
    lastValue,   \* history: the value of the latest Set of each namespace
    call,        \* the last registry call: operation, arguments, results
    record,      \* the Include a record decode writes into
    dcall,       \* the last record decode: node, record before, error
    recHeap,     \* Include objects by address
    varsHeap,    \* Vars objects by address
    orig,        \* the *Include DeepCopy was last called on (0 = nil)
    clone,       \* the *Include it returned (0 = nil)
    ccall        \* the last DeepCopy or Vars mutation

vars == <<includes, firstOrder, lastValue, call, record, dcall,
          recHeap, varsHeap, orig, clone, ccall>>
regVars == <<includes, firstOrder, lastValue, call>>
decVars == <<record, dcall>>
copyVars == <<recHeap, varsHeap, orig, clone, ccall>>

----------------------------------------------------------------------------
(* Bounds *)

MaxEntries == 2   \* key/value pairs of a mapping node handed to the registry
MaxObjects == 3   \* Include objects (and Vars objects) the heaps may hold

Namespaces == {"a", "b"}
Sorters == {"nil", "AlphaNumeric", "AlphaNumericWithRootTasksFirst"}
VarNames == {"X", "Y"}
VarValues == {"1", "2"}

----------------------------------------------------------------------------
(* Include *)

ZeroInclude ==
    [Namespace |-> "", Taskfile |-> "", Dir |-> "", Optional |-> FALSE,
     Internal |-> FALSE, Aliases |-> <<>>, AdvancedImport |-> FALSE,
     Vars |-> 0, Flatten |-> FALSE]

NilInclude == <<>>
Ptr(rec) == <<rec>>

(* errors.NewTaskfileDecodeError(err, node) and .WithTypeMessage(t) *)
NoError == [isErr |-> FALSE, cause |-> "", typeMessage |-> ""]
NewTaskfileDecodeError(cause) ==
    [isErr |-> TRUE, cause |-> cause, typeMessage |-> ""]
WithTypeMessage(err, t) == [err EXCEPT !.typeMessage = t]
(* What an error wrapped as the cause of another contributes to it. *)
ErrorText(err) == IF err.typeMessage # "" THEN err.typeMessage ELSE err.cause

----------------------------------------------------------------------------
(* yaml.Node *)

FieldNames ==
    {"taskfile", "dir", "optional", "internal", "flatten", "aliases", "vars"}

(* The values of a mapping node's keys; Present says which keys the node   *)
(* has, and the value of a key that is not present is never read.          *)
NoFields ==
    [taskfile |-> "", dir |-> "", optional |-> FALSE, internal |-> FALSE,
     flatten |-> FALSE, aliases |-> <<>>, vars |-> 0]

ScalarNode(tag, value) ==
    [Kind |-> "ScalarNode", Tag |-> tag, Value |-> value, Present |-> {},
     Fields |-> NoFields, BadFields |-> {}, Content |-> <<>>]
(* A mapping node read as a struct: Present are its keys, Fields their     *)
(* values, BadFields the keys whose value has the wrong type for the       *)
(* struct field (optional: [1, 2]).                                        *)
StructNode(present, fields, bad) ==
    [Kind |-> "MappingNode", Tag |-> "!!map", Value |-> "", Present |-> present,
     Fields |-> fields, BadFields |-> bad, Content |-> <<>>]
(* A mapping node read pairwise: Content alternates key and value nodes. *)
MappingNode(content) ==
    [Kind |-> "MappingNode", Tag |-> "!!map", Value |-> "", Present |-> {},
     Fields |-> NoFields, BadFields |-> {}, Content |-> content]
(* SequenceNode, AliasNode, DocumentNode or the zero Kind *)
OtherNode(kind) ==
    [Kind |-> kind, Tag |-> "", Value |-> "", Present |-> {},
     Fields |-> NoFields, BadFields |-> {}, Content |-> <<>>]

Has(node, f) == f \in node.Present

(* node.Decode(&str) of a scalar: a !!binary scalar is base64-decoded and  *)
(* the model's !!binary scalars carry invalid base64; any other scalar     *)
(* yields its text.                                                        *)
DecodeString(node) ==
    IF node.Tag = "!!binary"
    THEN [err |-> "yaml: !!binary value contains invalid base64 data", str |-> ""]
    ELSE [err |-> "", str |-> node.Value]

(* node.Decode(&includedTaskfile): a key of the wrong type fails the       *)
(* decode, an absent key leaves the field's zero value.                    *)
DecodeStruct(node) ==
    IF node.BadFields # {}
    THEN [err |-> "yaml: unmarshal errors",
          val |-> [Taskfile |-> "", Dir |-> "", Optional |-> FALSE, Internal |-> FALSE,
                   Flatten |-> FALSE, Aliases |-> <<>>, Vars |-> 0]]
    ELSE [err |-> "",
          val |-> [Taskfile |-> IF Has(node, "taskfile") THEN node.Fields.taskfile ELSE "",
                   Dir      |-> IF Has(node, "dir") THEN node.Fields.dir ELSE "",
                   Optional |-> IF Has(node, "optional") THEN node.Fields.optional ELSE FALSE,
                   Internal |-> IF Has(node, "internal") THEN node.Fields.internal ELSE FALSE,
                   Flatten  |-> IF Has(node, "flatten") THEN node.Fields.flatten ELSE FALSE,
                   Aliases  |-> IF Has(node, "aliases") THEN node.Fields.aliases ELSE <<>>,
                   Vars     |-> IF Has(node, "vars") THEN node.Fields.vars ELSE 0]]

\* func (include *Include) UnmarshalYAML(node *yaml.Node) error
IncludeUnmarshalYAMLDropsFlatten(include, node) ==
    CASE node.Kind = "ScalarNode" ->
            LET d == DecodeString(node) IN
            IF d.err # ""
            THEN [err |-> NewTaskfileDecodeError(d.err), include |-> include]
            ELSE [err |-> NoError,
                  include |-> [include EXCEPT !.Taskfile = d.str]]
      [] node.Kind = "MappingNode" ->
            LET d == DecodeStruct(node) IN
            IF d.err # ""
            THEN [err |-> NewTaskfileDecodeError(d.err), include |-> include]
            ELSE [err |-> NoError,
                  include |-> [include EXCEPT
                                 !.Taskfile = d.val.Taskfile,
                                 !.Dir = d.val.Dir,
                                 !.Optional = d.val.Optional,
                                 !.Internal = d.val.Internal,
                                 !.Aliases = d.val.Aliases,
                                 !.AdvancedImport = TRUE,
                                 !.Vars = d.val.Vars]]
      [] OTHER ->
            [err |-> WithTypeMessage(NewTaskfileDecodeError(""), "include"),
             include |-> include]

IncludeUnmarshalYAML(include, node) ==
    CASE node.Kind = "ScalarNode" ->
            LET d == DecodeString(node) IN
            IF d.err # ""
            THEN [err |-> NewTaskfileDecodeError(d.err), include |-> include]
            ELSE [err |-> NoError,
                  include |-> [include EXCEPT !.Taskfile = d.str]]
      [] node.Kind = "MappingNode" ->
            LET d == DecodeStruct(node) IN
            IF d.err # ""
            THEN [err |-> NewTaskfileDecodeError(d.err), include |-> include]
            ELSE [err |-> NoError,
                  include |-> [include EXCEPT
                                 !.Taskfile = d.val.Taskfile,
                                 !.Dir = d.val.Dir,
                                 !.Optional = d.val.Optional,
                                 !.Internal = d.val.Internal,
                                 !.Aliases = d.val.Aliases,
                                 !.AdvancedImport = TRUE,
                                 !.Vars = d.val.Vars,
                                 !.Flatten = d.val.Flatten]]
      [] OTHER ->
            [err |-> WithTypeMessage(NewTaskfileDecodeError(""), "include"),
             include |-> include]

----------------------------------------------------------------------------
(* orderedmap.OrderedMap[string, *Include] as include.go uses it *)

NilOm == [isNil |-> TRUE, els |-> <<>>]
NewOrderedMap == [isNil |-> FALSE, els |-> <<>>]

IndexOf(els, key) ==
    IF \E i \in 1..Len(els) : els[i].Key = key
    THEN CHOOSE i \in 1..Len(els) : els[i].Key = key
    ELSE 0

OmLen(om) == Len(om.els)

(* om.Get: the zero value of *Include (nil) and false when key is absent *)
OmGet(om, key) ==
    LET i == IndexOf(om.els, key) IN
    IF i = 0 THEN [value |-> NilInclude, ok |-> FALSE]
    ELSE [value |-> om.els[i].Value, ok |-> TRUE]

(* om.Set: replace in place, or append; true when the key is new *)
OmSet(om, key, value) ==
    LET i == IndexOf(om.els, key) IN
    IF i = 0
    THEN [om |-> [om EXCEPT !.els = Append(om.els, [Key |-> key, Value |-> value])],
          isNew |-> TRUE]
    ELSE [om |-> [om EXCEPT !.els[i].Value = value], isNew |-> FALSE]

(* om.Iterator(): the pairs in list order *)
OmIterator(om) == [i \in 1..Len(om.els) |-> <<om.els[i].Key, om.els[i].Value>>]

----------------------------------------------------------------------------
(* Includes *)

NilIncludes == [isNil |-> TRUE, om |-> NilOm]
ZeroIncludes == [isNil |-> FALSE, om |-> NilOm]    \* &Includes{}

RECURSIVE SetAll(_, _)

\* func (includes *Includes) Set(key, value) bool.  The receiver is a     
(* parameter: assigning NewIncludes() to it does not change the caller's   *)
(* pointer, so `receiver` (what the caller's pointer refers to afterwards) *)
(* is still nil when the call was made on nil.                             *)
Set(incl, key, value) ==
    LET local == IF incl.isNil
                 THEN [isNil |-> FALSE, om |-> NewOrderedMap]
                 ELSE incl
        withOm == IF local.om.isNil
                  THEN [local EXCEPT !.om = NewOrderedMap]
                  ELSE local
        r == OmSet(withOm.om, key, value)
    IN  [ret |-> r.isNew,
         receiver |-> IF incl.isNil THEN incl
                      ELSE [withOm EXCEPT !.om = r.om]]

SetAll(incl, els) ==
    IF els = <<>> THEN incl
    ELSE SetAll(Set(incl, Head(els).Key, Head(els).Value).receiver, Tail(els))

\* func NewIncludes(els ...*IncludeElement) *Includes
NewIncludes(els) == SetAll([isNil |-> FALSE, om |-> NewOrderedMap], els)

\* func (includes *Includes) Len() int
IncludesLen(incl) ==
    IF incl.isNil \/ incl.om.isNil THEN 0 ELSE OmLen(incl.om)

\* func (includes *Includes) Get(key string) (*Include, bool)
Get(incl, key) ==
    IF incl.isNil \/ incl.om.isNil
    THEN [value |-> Ptr(ZeroInclude), ok |-> FALSE]
    ELSE OmGet(incl.om, key)

\* func (includes *Includes) All() iter.Seq2[string, *Include]
All(incl) ==
    IF incl.isNil \/ incl.om.isNil THEN <<>> ELSE OmIterator(incl.om)

\* func (includes *Includes) Keys(sorter sort.Sorter) iter.Seq[string]
\* The sorter is not used: the keys come out in the order of All().
NamespaceRank(k) == IF k = "a" THEN 1 ELSE IF k = "b" THEN 2 ELSE 3

KeysSortedBySorter(incl, sorter) ==
    LET ks == [i \in 1..Len(All(incl)) |-> All(incl)[i][1]]
        Before(k) == Cardinality({j \in 1..Len(ks) :
                                    NamespaceRank(ks[j]) < NamespaceRank(k)})
    IN  IF sorter = "nil" THEN ks
        ELSE [i \in 1..Len(ks) |->
                 CHOOSE k \in {ks[j] : j \in 1..Len(ks)} : Before(k) = i - 1]

Keys(incl, sorter) == [i \in 1..Len(All(incl)) |-> All(incl)[i][1]]

\* func (includes *Includes) Values(sorter sort.Sorter) iter.Seq[*Include]
Values(incl, sorter) == [i \in 1..Len(All(incl)) |-> All(incl)[i][2]]


(* valueNode.Decode(&v) with `var v Include`: the yaml decoder hands the   *)
(* node to v.UnmarshalYAML.                                                *)
DecodeInclude(valueNode) == IncludeUnmarshalYAML(ZeroInclude, valueNode)

(* The for loop of Includes.UnmarshalYAML from index i (0-based, as in the *)
(* code); `sets` lists the Set calls made so far.                          *)
RECURSIVE UnmarshalLoopNoNamespace(_, _, _, _)
UnmarshalLoopNoNamespace(incl, node, i, sets) ==
    IF ~(i < Len(node.Content))
    THEN [err |-> NoError, receiver |-> incl, sets |-> sets]
    ELSE LET keyNode == node.Content[i + 1]
             valueNode == node.Content[i + 2]
             d == DecodeInclude(valueNode)
             v == d.include
         IN  IF d.err.isErr
             THEN [err |-> NewTaskfileDecodeError(ErrorText(d.err)),
                   receiver |-> incl, sets |-> sets]
             ELSE UnmarshalLoopNoNamespace(
                      Set(incl, keyNode.Value, Ptr(v)).receiver, node,
                      i + 2, Append(sets, <<keyNode.Value, Ptr(v)>>))

RECURSIVE UnmarshalLoop(_, _, _, _)
UnmarshalLoop(incl, node, i, sets) ==
    IF ~(i < Len(node.Content))
    THEN [err |-> NoError, receiver |-> incl, sets |-> sets]
    ELSE LET keyNode == node.Content[i + 1]
             valueNode == node.Content[i + 2]
             d == DecodeInclude(valueNode)
             v == [d.include EXCEPT !.Namespace = keyNode.Value]
         IN  IF d.err.isErr
             THEN [err |-> NewTaskfileDecodeError(ErrorText(d.err)),
                   receiver |-> incl, sets |-> sets]
             ELSE UnmarshalLoop(Set(incl, keyNode.Value, Ptr(v)).receiver, node,
                                i + 2, Append(sets, <<keyNode.Value, Ptr(v)>>))

\* func (includes *Includes) UnmarshalYAML(node *yaml.Node) error
UnmarshalYAMLAcceptsAnyNode(incl, node) ==
    IF node.Kind = "MappingNode"
    THEN UnmarshalLoop(incl, node, 0, <<>>)
    ELSE [err |-> NoError, receiver |-> incl, sets |-> <<>>]

UnmarshalYAML(incl, node) ==
    IF node.Kind = "MappingNode"
    THEN UnmarshalLoop(incl, node, 0, <<>>)
    ELSE [err |-> WithTypeMessage(NewTaskfileDecodeError(""), "includes"),
          receiver |-> incl, sets |-> <<>>]

----------------------------------------------------------------------------
(* Inputs of the registry operations *)

Rec(taskfile) == [ZeroInclude EXCEPT !.Taskfile = taskfile]
SetValues == {Ptr(Rec("1")), Ptr(Rec("2")), Ptr(Rec("3"))}

KeyNode(k) == ScalarNode("!!str", k)
ScalarA == ScalarNode("!!str", "./a.yml")
AdvancedB ==
    StructNode({"taskfile", "internal"},
               [NoFields EXCEPT !.taskfile = "./b.yml", !.internal = TRUE], {})
EmptyMapping == StructNode({}, NoFields, {})
BadOptional ==
    StructNode({"taskfile", "optional"},
               [NoFields EXCEPT !.taskfile = "./b.yml"], {"optional"})
SequenceNode == OtherNode("SequenceNode")

(* The key/value pairs mapping nodes are built from: both namespaces, a    *)
(* namespace twice with different values, values of every shape.           *)
Entries ==
    {<<KeyNode("a"), ScalarA>>, <<KeyNode("b"), AdvancedB>>,
     <<KeyNode("a"), EmptyMapping>>, <<KeyNode("b"), SequenceNode>>,
     <<KeyNode("a"), BadOptional>>}

Pairs(n) == [1..n -> Entries]
ContentOf(ps) ==
    [i \in 1..(2 * Len(ps)) |-> ps[(i + 1) \div 2][IF i % 2 = 1 THEN 1 ELSE 2]]
MappingNodes ==
    {MappingNode(ContentOf(ps)) : ps \in UNION {Pairs(n) : n \in 0..MaxEntries}}
RegistryNodes == MappingNodes \cup {ScalarA, SequenceNode}

El(k, v) == [Key |-> k, Value |-> v]
InitialElements ==
    {<<>>,
     <<El("a", Ptr(Rec("1")))>>,
     <<El("b", Ptr(Rec("2"))), El("a", Ptr(Rec("1")))>>,
     <<El("a", Ptr(Rec("1"))), El("b", Ptr(Rec("2"))), El("a", Ptr(Rec("3")))>>}

----------------------------------------------------------------------------
(* The registry as a state machine: one action per method call *)

NoCall ==
    [op |-> "", key |-> "", value |-> NilInclude, sorter |-> "",
     node |-> OtherNode(""), pre |-> NilIncludes,
     ok |-> FALSE, n |-> 0, rec |-> NilInclude, seq |-> <<>>, err |-> NoError]

(* History of the Set calls made on the caller's registry. *)
RECURSIVE Record(_, _, _)
Record(order, last, sets) ==
    IF sets = <<>> THEN [order |-> order, last |-> last]
    ELSE LET k == Head(sets)[1]
             seen == \E i \in 1..Len(order) : order[i] = k
         IN  Record(IF seen THEN order ELSE Append(order, k),
                    [last EXCEPT ![k] = Head(sets)[2]], Tail(sets))

NoValues == [k \in Namespaces |-> NilInclude]

NewIncludesCall(els) ==
    LET h == Record(<<>>, NoValues,
                    [i \in 1..Len(els) |-> <<els[i].Key, els[i].Value>>])
    IN  /\ includes' = NewIncludes(els)
        /\ firstOrder' = h.order
        /\ lastValue' = h.last
        /\ call' = [NoCall EXCEPT !.op = "NewIncludes", !.pre = includes]
        /\ UNCHANGED <<decVars, copyVars>>

SetCall(key, value) ==
    LET r == Set(includes, key, value)
        h == Record(firstOrder, lastValue, <<<<key, value>>>>)
    IN  /\ includes' = r.receiver
        /\ firstOrder' = h.order
        /\ lastValue' = h.last
        /\ call' = [NoCall EXCEPT !.op = "Set", !.key = key, !.value = value,
                                  !.pre = includes, !.ok = r.ret]
        /\ UNCHANGED <<decVars, copyVars>>

GetCall(key) ==
    LET r == Get(includes, key)
    IN  /\ call' = [NoCall EXCEPT !.op = "Get", !.key = key, !.pre = includes,
                                  !.rec = r.value, !.ok = r.ok]
        /\ UNCHANGED <<includes, firstOrder, lastValue, decVars, copyVars>>

LenCall ==
    /\ call' = [NoCall EXCEPT !.op = "Len", !.pre = includes,
                              !.n = IncludesLen(includes)]
    /\ UNCHANGED <<includes, firstOrder, lastValue, decVars, copyVars>>

AllCall ==
    /\ call' = [NoCall EXCEPT !.op = "All", !.pre = includes,
                              !.seq = All(includes)]
    /\ UNCHANGED <<includes, firstOrder, lastValue, decVars, copyVars>>

KeysCall(sorter) ==
    /\ call' = [NoCall EXCEPT !.op = "Keys", !.sorter = sorter, !.pre = includes,
                              !.seq = Keys(includes, sorter)]
    /\ UNCHANGED <<includes, firstOrder, lastValue, decVars, copyVars>>

ValuesCall(sorter) ==
    /\ call' = [NoCall EXCEPT !.op = "Values", !.sorter = sorter, !.pre = includes,
                              !.seq = Values(includes, sorter)]
    /\ UNCHANGED <<includes, firstOrder, lastValue, decVars, copyVars>>

UnmarshalYAMLCall(node) ==
    LET r == UnmarshalYAML(includes, node)
        h == Record(firstOrder, lastValue, r.sets)
    IN  /\ includes' = r.receiver
        /\ firstOrder' = h.order
        /\ lastValue' = h.last
        /\ call' = [NoCall EXCEPT !.op = "UnmarshalYAML", !.node = node,
                                  !.pre = includes, !.err = r.err]
        /\ UNCHANGED <<decVars, copyVars>>

----------------------------------------------------------------------------
(* Record decode as a state machine *)

FullFields ==
    [taskfile |-> "./sub/Taskfile.yml", dir |-> "./sub", optional |-> TRUE,
     internal |-> TRUE, flatten |-> TRUE, aliases |-> <<"s">>, vars |-> 1]
OtherFields ==
    [taskfile |-> "", dir |-> "./other", optional |-> FALSE,
     internal |-> FALSE, flatten |-> FALSE, aliases |-> <<"s", "t">>, vars |-> 2]

(* Mapping nodes with no key, one key, all keys but one, or all keys. *)
KeySets ==
    {ks \in SUBSET FieldNames :
        Cardinality(ks) <= 1 \/ Cardinality(ks) >= Cardinality(FieldNames) - 1}

DecodeNodes ==
    {StructNode(ks, FullFields, {}) : ks \in KeySets}
    \cup {StructNode(FieldNames, OtherFields, {}),
          StructNode(FieldNames, FullFields, {"optional"}),
          StructNode({"vars"}, FullFields, {"vars"}),
          ScalarNode("!!str", "./sub/Taskfile.yml"),
          ScalarNode("!!str", ""),
          ScalarNode("!!binary", "%"),
          OtherNode("SequenceNode"), OtherNode("AliasNode"), OtherNode("")}

NoDecode ==
    [op |-> "", node |-> OtherNode(""), pre |-> ZeroInclude, err |-> NoError,
     state |-> "Unparsed"]

(* `var v Include`: a freshly created record *)
NewRecord ==
    /\ record' = ZeroInclude
    /\ dcall' = [NoDecode EXCEPT !.op = "New"]
    /\ UNCHANGED <<regVars, copyVars>>

IncludeUnmarshalYAMLCall(node) ==
    LET r == IncludeUnmarshalYAML(record, node)
    IN  /\ record' = r.include
        /\ dcall' = [op |-> "UnmarshalYAML", node |-> node, pre |-> record,
                     err |-> r.err,
                     state |-> IF ~r.err.isErr THEN "Decoded"
                               ELSE IF r.err.typeMessage = "include"
                                    THEN "Rejected" ELSE "Failed"]
        /\ UNCHANGED <<regVars, copyVars>>

----------------------------------------------------------------------------
(* DeepCopy over heaps of Include and Vars objects *)

NoVars == [n \in VarNames |-> ""]     \* "" : the variable is not set

(* vars.DeepCopy(): nil for nil, else a new Vars object with the content  *)
(* of the source.                                                          *)
VarsDeepCopy(vh, p) ==
    IF p = 0 THEN [ptr |-> 0, varsHeap |-> vh]
    ELSE [ptr |-> Len(vh) + 1, varsHeap |-> Append(vh, vh[p])]

\* func (include *Include) DeepCopy() *Include
IncludeDeepCopySharesVars(rh, vh, p) ==
    IF p = 0 THEN [ptr |-> 0, recHeap |-> rh, varsHeap |-> vh]
    ELSE [ptr |-> Len(rh) + 1,
          recHeap |-> Append(rh, [rh[p] EXCEPT !.Aliases = <<>>]),
          varsHeap |-> vh]

IncludeDeepCopy(rh, vh, p) ==
    IF p = 0 THEN [ptr |-> 0, recHeap |-> rh, varsHeap |-> vh]
    ELSE LET include == rh[p]
             v == VarsDeepCopy(vh, include.Vars)
         IN  [ptr |-> Len(rh) + 1,
              recHeap |-> Append(rh,
                  [ZeroInclude EXCEPT
                      !.Namespace = include.Namespace,
                      !.Taskfile = include.Taskfile,
                      !.Dir = include.Dir,
                      !.Optional = include.Optional,
                      !.Internal = include.Internal,
                      !.AdvancedImport = include.AdvancedImport,
                      !.Vars = v.ptr,
                      !.Flatten = include.Flatten]),
              varsHeap |-> v.varsHeap]

(* The records DeepCopy is first called on: the zero record, and decoded  *)
(* records with and without aliases, variables and flags.                 *)
Source(flag, aliases, v) ==
    [Namespace |-> "a", Taskfile |-> "./a.yml", Dir |-> "./sub",
     Optional |-> flag, Internal |-> ~flag, Aliases |-> aliases,
     AdvancedImport |-> TRUE, Vars |-> v, Flatten |-> flag]
CopySources ==
    {ZeroInclude} \cup
    {Source(flag, al, v) : flag \in BOOLEAN, al \in {<<>>, <<"s", "t">>}, v \in {0, 1}}

NoCopy ==
    [op |-> "", via |-> "", name |-> "", value |-> "",
     origVars |-> NoVars, cloneVars |-> NoVars]

VarsAt(vh, rh, p) ==
    IF p = 0 THEN NoVars
    ELSE IF rh[p].Vars = 0 THEN NoVars ELSE vh[rh[p].Vars]

DeepCopyCall(p) ==
    LET r == IncludeDeepCopy(recHeap, varsHeap, p)
    IN  /\ p <= Len(recHeap)
        /\ Len(recHeap) < MaxObjects
        /\ recHeap' = r.recHeap
        /\ varsHeap' = r.varsHeap
        /\ orig' = p
        /\ clone' = r.ptr
        /\ ccall' = [NoCopy EXCEPT !.op = "DeepCopy"]
        /\ UNCHANGED <<regVars, decVars>>

(* A holder of the *Include p sets variable `name` of p.Vars to `value`. *)
MutateVars(via, name, value) ==
    LET p == IF via = "orig" THEN orig ELSE clone
    IN  /\ p # 0
        /\ recHeap[p].Vars # 0
        /\ varsHeap[recHeap[p].Vars][name] # value
        /\ varsHeap' = [varsHeap EXCEPT ![recHeap[p].Vars][name] = value]
        /\ ccall' = [op |-> "Mutate", via |-> via, name |-> name, value |-> value,
                     origVars |-> VarsAt(varsHeap, recHeap, orig),
                     cloneVars |-> VarsAt(varsHeap, recHeap, clone)]
        /\ UNCHANGED <<recHeap, orig, clone, regVars, decVars>>

----------------------------------------------------------------------------
(* Specifications *)

RegInit ==
    /\ includes \in {NilIncludes, ZeroIncludes}
    /\ firstOrder = <<>>
    /\ lastValue = NoValues
    /\ call = NoCall
DecInit ==
    /\ record = ZeroInclude
    /\ dcall = NoDecode
CopyInit ==
    /\ recHeap = <<>>
    /\ varsHeap = <<>>
    /\ orig = 0
    /\ clone = 0
    /\ ccall = NoCopy

Init == RegInit /\ DecInit /\ CopyInit

Next ==
    \/ \E els \in InitialElements : NewIncludesCall(els)
    \/ \E k \in Namespaces, v \in SetValues : SetCall(k, v)
    \/ \E k \in Namespaces : GetCall(k)
    \/ LenCall
    \/ AllCall
    \/ \E s \in Sorters : KeysCall(s)
    \/ \E s \in Sorters : ValuesCall(s)
    \/ \E node \in RegistryNodes : UnmarshalYAMLCall(node)

Spec == Init /\ [][Next]_vars

DecodeNext ==
    \/ NewRecord
    \/ \E node \in DecodeNodes : IncludeUnmarshalYAMLCall(node)

InitDecode ==
    /\ includes = ZeroIncludes /\ firstOrder = <<>> /\ lastValue = NoValues
    /\ call = NoCall
    /\ DecInit /\ CopyInit

SpecDecode == InitDecode /\ [][DecodeNext]_vars

InitCopy ==
    /\ includes = ZeroIncludes /\ firstOrder = <<>> /\ lastValue = NoValues
    /\ call = NoCall
    /\ DecInit
    /\ \E src \in CopySources :
          /\ recHeap = <<src>>
          /\ varsHeap = IF src.Vars = 0 THEN <<>> ELSE <<[NoVars EXCEPT !["X"] = "1"]>>
    /\ orig = 0
    /\ clone = 0
    /\ ccall = NoCopy

CopyNext ==
    \/ \E p \in 0..MaxObjects : DeepCopyCall(p)
    \/ \E via \in {"orig", "clone"}, n \in VarNames, v \in VarValues :
          MutateVars(via, n, v)

SpecCopy == InitCopy /\ [][CopyNext]_vars

(* Shape checks of both decoders: the registry is populated by Set and   *)
(* decoded into, a record is decoded into repeatedly.                      *)
(* The registry nodes with at most one key/value pair. *)
ShapeRegistryNodes ==
    {n \in RegistryNodes : Len(n.Content) <= 2}
ShapeDecodeNodes ==
    {StructNode(FieldNames, FullFields, {}),
     ScalarNode("!!str", "./sub/Taskfile.yml"),
     OtherNode("SequenceNode"), OtherNode("AliasNode"), OtherNode("")}

ShapeNext ==
    \/ \E k \in Namespaces : SetCall(k, Ptr(Rec("1")))
    \/ \E node \in ShapeRegistryNodes : UnmarshalYAMLCall(node)
    \/ NewRecord
    \/ \E node \in ShapeDecodeNodes : IncludeUnmarshalYAMLCall(node)

SpecShape == Init /\ [][ShapeNext]_vars

----------------------------------------------------------------------------
(* Properties *)

Uninitialized(incl) == incl.isNil \/ incl.om.isNil
KeysOfAll(incl) == [i \in 1..Len(All(incl)) |-> All(incl)[i][1]]
NoDuplicates(seq) ==
    \A i, j \in 1..Len(seq) : i # j => seq[i] # seq[j]

(* C1: on a registry object (initialized or zero-valued), after any        *)
(* sequence of Set calls Keys, under every sorter, and the keys of All are *)
(* the distinct namespaces in the order of their first Set, each once; Get *)
(* of each returns the value of its latest Set; and a Set of a namespace   *)
(* that is already present leaves the key order as it was.                 *)
C1_InsertionOrder ==
    ~includes.isNil =>
        /\ \A s \in Sorters : Keys(includes, s) = firstOrder
        /\ KeysOfAll(includes) = firstOrder
        /\ NoDuplicates(firstOrder)
        /\ \A i \in 1..Len(firstOrder) :
              Get(includes, firstOrder[i]) =
                  [value |-> lastValue[firstOrder[i]], ok |-> TRUE]
        /\ (call.op = "Set" /\ Get(call.pre, call.key).ok) =>
              /\ ~call.ok
              /\ \A s \in Sorters : Keys(includes, s) = Keys(call.pre, s)

(* Set(b,2); Set(a,1); Set(b,3): b was set first and replaced last. *)
C1_Witness ==
    /\ ~includes.isNil
    /\ call.op = "Set" /\ call.key = "b" /\ call.value = Ptr(Rec("3"))
    /\ Get(call.pre, "b") = [value |-> Ptr(Rec("2")), ok |-> TRUE]
    /\ firstOrder = <<"b", "a">>
    /\ Get(includes, "b").value = Ptr(Rec("3"))

(* C2: a registry decode that returns an error leaves the registry as it   *)
(* was before the call.                                                    *)
C2_DecodeErrorAllOrNothing ==
    (call.op = "UnmarshalYAML" /\ call.err.isErr) =>
        /\ includes = call.pre
        /\ IncludesLen(includes) = IncludesLen(call.pre)
        /\ \A k \in Namespaces : Get(includes, k) = Get(call.pre, k)

(* C3: Set on an uninitialized registry (nil reference or nil storage)     *)
(* returns true and registers the entry in that registry.                  *)
C3_SetOnUninitialized ==
    (call.op = "Set" /\ Uninitialized(call.pre)) =>
        /\ call.ok
        /\ Get(includes, call.key) = [value |-> call.value, ok |-> TRUE]
        /\ IncludesLen(includes) = 1

(* C4: DeepCopy of nil is nil; DeepCopy of a record is a distinct record   *)
(* with every field of the source: the scalars, Aliases, and Vars          *)
(* (content-equal, absent stays absent).                                   *)
C4_DeepCopyCopiesEveryField ==
    ccall.op = "DeepCopy" =>
        IF orig = 0 THEN clone = 0
        ELSE /\ clone # 0 /\ clone # orig
             /\ recHeap[clone].Namespace = recHeap[orig].Namespace
             /\ recHeap[clone].Taskfile = recHeap[orig].Taskfile
             /\ recHeap[clone].Dir = recHeap[orig].Dir
             /\ recHeap[clone].Optional = recHeap[orig].Optional
             /\ recHeap[clone].Internal = recHeap[orig].Internal
             /\ recHeap[clone].AdvancedImport = recHeap[orig].AdvancedImport
             /\ recHeap[clone].Flatten = recHeap[orig].Flatten
             /\ recHeap[clone].Aliases = recHeap[orig].Aliases
             /\ (recHeap[clone].Vars = 0) = (recHeap[orig].Vars = 0)
             /\ VarsAt(varsHeap, recHeap, clone) = VarsAt(varsHeap, recHeap, orig)

(* The namespaces of a mapping node in textual order, each at its first   *)
(* occurrence, and the value node of the last occurrence of a namespace.   *)
RECURSIVE FirstOccurrences(_, _, _)
FirstOccurrences(content, i, acc) ==
    IF i > Len(content) THEN acc
    ELSE FirstOccurrences(content, i + 2,
            IF \E j \in 1..Len(acc) : acc[j] = content[i].Value
            THEN acc ELSE Append(acc, content[i].Value))
NodeKeys(node) == FirstOccurrences(node.Content, 1, <<>>)
LastValueNode(node, k) ==
    LET is == {i \in 1..Len(node.Content) :
                  i % 2 = 1 /\ node.Content[i].Value = k}
        last == CHOOSE i \in is : \A j \in is : j <= i
    IN  node.Content[last + 1]
DecodedRecord(valueNode) ==
    IF valueNode.Kind = "ScalarNode"
    THEN [ZeroInclude EXCEPT !.Taskfile = valueNode.Value]
    ELSE [Namespace |-> "",
          Taskfile |-> IF "taskfile" \in valueNode.Present
                       THEN valueNode.Fields.taskfile ELSE "",
          Dir |-> IF "dir" \in valueNode.Present THEN valueNode.Fields.dir ELSE "",
          Optional |-> "optional" \in valueNode.Present /\ valueNode.Fields.optional,
          Internal |-> "internal" \in valueNode.Present /\ valueNode.Fields.internal,
          Aliases |-> IF "aliases" \in valueNode.Present
                      THEN valueNode.Fields.aliases ELSE <<>>,
          AdvancedImport |-> TRUE,
          Vars |-> IF "vars" \in valueNode.Present THEN valueNode.Fields.vars ELSE 0,
          Flatten |-> "flatten" \in valueNode.Present /\ valueNode.Fields.flatten]

(* C5: a registry decode of a mapping node that succeeds on an empty       *)
(* registry object leaves Keys = the node's namespaces in textual order    *)
(* (each at its first occurrence), Len = their number, and Get(k) = the    *)
(* record decoded from k's (last) value with Namespace = k.                *)
C5_DecodeInSourceOrder ==
    (/\ call.op = "UnmarshalYAML" /\ ~call.err.isErr
     /\ call.node.Kind = "MappingNode"
     /\ ~call.pre.isNil /\ IncludesLen(call.pre) = 0) =>
        /\ \A s \in Sorters : Keys(includes, s) = NodeKeys(call.node)
        /\ KeysOfAll(includes) = NodeKeys(call.node)
        /\ NoDuplicates(NodeKeys(call.node))
        /\ IncludesLen(includes) = Len(NodeKeys(call.node))
        /\ \A i \in 1..Len(NodeKeys(call.node)) :
              LET k == NodeKeys(call.node)[i] IN
              Get(includes, k) =
                  [value |-> Ptr([DecodedRecord(LastValueNode(call.node, k))
                                     EXCEPT !.Namespace = k]),
                   ok |-> TRUE]

(* {b: {taskfile: ./b.yml, internal: true}, a: ./a.yml} decoded into a     *)
(* registry whose storage was never created.                               *)
C5_Witness ==
    /\ call.op = "UnmarshalYAML" /\ ~call.err.isErr
    /\ call.pre = ZeroIncludes
    /\ call.node = MappingNode(<<KeyNode("b"), AdvancedB, KeyNode("a"), ScalarA>>)
    /\ IncludesLen(includes) = 2
    /\ Get(includes, "a").value[1].Namespace = "a"
    /\ Get(includes, "b").value[1].Internal

(* C6: Len, Get and All on an uninitialized registry return what they      *)
(* return on an empty initialized registry.                                *)
C6_UninitializedLikeEmpty ==
    Uninitialized(call.pre) =>
        /\ call.op = "Len" =>
              call.n = 0 /\ call.n = IncludesLen(NewIncludes(<<>>))
        /\ call.op = "Get" =>
              /\ ~call.ok
              /\ [value |-> call.rec, ok |-> call.ok]
                    = Get(NewIncludes(<<>>), call.key)
        /\ call.op = "All" =>
              call.seq = <<>> /\ call.seq = All(NewIncludes(<<>>))

(* C7: a record decode that succeeds leaves a non-empty Taskfile. *)
C7_TaskfileNonEmpty ==
    (dcall.op = "UnmarshalYAML" /\ dcall.state = "Decoded") =>
        record.Taskfile # ""

(* C8: the Vars of a DeepCopy is a separate object: the copy of a record   *)
(* with Vars has Vars at another address, a mutation through the clone     *)
(* leaves the original's Vars as they were, and a mutation through the     *)
(* original leaves the clone's.                                            *)
C8_VarsIndependent ==
    (orig # 0 /\ clone # 0) =>
        /\ recHeap[orig].Vars # 0 =>
              recHeap[clone].Vars \notin {0, recHeap[orig].Vars}
        /\ (ccall.op = "Mutate" /\ ccall.via = "clone") =>
              VarsAt(varsHeap, recHeap, orig) = ccall.origVars
        /\ (ccall.op = "Mutate" /\ ccall.via = "orig") =>
              VarsAt(varsHeap, recHeap, clone) = ccall.cloneVars

(* The override X of the clone was changed after the copy. *)
C8_Witness ==
    /\ orig # 0 /\ clone # 0
    /\ ccall.op = "Mutate" /\ ccall.via = "clone" /\ ccall.name = "X"
    /\ VarsAt(varsHeap, recHeap, clone)["X"] = "2"
    /\ VarsAt(varsHeap, recHeap, orig)["X"] = "1"

(* C9: a successful decode into a freshly created record sets              *)
(* AdvancedImport iff the node is a mapping; a scalar sets Taskfile to its *)
(* string and nothing else; a mapping sets each field that is present,     *)
(* leaves the absent ones zero and sets AdvancedImport even when empty.    *)
C9_TwoFormDecode ==
    (/\ dcall.op = "UnmarshalYAML" /\ ~dcall.err.isErr
     /\ dcall.pre = ZeroInclude) =>
        /\ record.AdvancedImport <=> dcall.node.Kind = "MappingNode"
        /\ record = DecodedRecord(dcall.node)

(* A mapping with every key decoded into a fresh record. *)
C9_Witness ==
    /\ dcall.op = "UnmarshalYAML" /\ ~dcall.err.isErr /\ dcall.pre = ZeroInclude
    /\ dcall.node.Kind = "MappingNode"
    /\ dcall.node.Present = FieldNames /\ record.Flatten /\ record.Vars = 1

(* C10: the registry decode of a node that is not a mapping fails with the *)
(* type message "includes" and leaves the registry as it was; the record   *)
(* decode of a node that is neither scalar nor mapping fails with the type *)
(* message "include", leaves the record as it was and ends Rejected.       *)
C10_ShapeMismatchRejected ==
    /\ (call.op = "UnmarshalYAML" /\ call.node.Kind # "MappingNode") =>
          /\ call.err.isErr /\ call.err.typeMessage = "includes"
          /\ includes = call.pre
    /\ (dcall.op = "UnmarshalYAML"
        /\ dcall.node.Kind \notin {"ScalarNode", "MappingNode"}) =>
          /\ dcall.err.isErr /\ dcall.err.typeMessage = "include"
          /\ record = dcall.pre
          /\ dcall.state = "Rejected"

(* A populated registry and a populated record, each handed a sequence. *)
C10_Witness ==
    /\ call.op = "UnmarshalYAML" /\ call.node = SequenceNode
    /\ IncludesLen(includes) = 2
    /\ dcall.op = "UnmarshalYAML" /\ dcall.node.Kind = "SequenceNode"
    /\ record.AdvancedImport /\ record.Taskfile # ""

====
